---------------------------- MODULE Spec2Model ----------------------------
(***************************************************************************)
(* A model of src/src/main.rs (ffmpeg-gui): the batch controller           *)
(* (VideoProcessor::process_control and process_task), the progress        *)
(* parser (parse_ffmpeg_progress) and the preview service                  *)
(* (VideoProcessor::generate_preview, clear_previews, preview_panel).      *)
(*                                                                         *)
(* Text is a sequence of one-character strings.  ProcessingState.progress  *)
(* (an f32) is kept in ten-thousandths, so that seconds / 100 with two     *)
(* decimals of a second is exact: progress 0.905 is 9050; f32 rounding is  *)
(* not modelled.  The egui frame clock is kept in tenths of a second.      *)
(***************************************************************************)
EXTENDS Integers, Sequences, FiniteSets, TLC

VARIABLES
    source_paths,               \* VideoProcessor.source_paths
    start_time,                 \* VideoProcessor.start_time
    end_time,                   \* VideoProcessor.end_time
    rotation,                   \* VideoProcessor.rotation
    disk,                       \* the video files that exist in the file system
    batch_queue,                \* VideoProcessor.batch_queue
    processing,                 \* VideoProcessor.processing (Arc<Mutex<bool>>)
    progress,                   \* ProcessingState.progress, in ten-thousandths
    message,                    \* ProcessingState.message
    workers,                    \* the batch worker threads, in spawn order
    procs,                      \* ffmpeg children of process_task and their stderr readers
    loading,                    \* start_preview_loading / end_preview_loading
    frame,                      \* current_start_preview_frame / current_end_preview_frame
    frame_lock,                 \* the holder of each frame slot's mutex (0: free)
    last_preview_request_time,  \* VideoProcessor.last_preview_request_time
    preview_thread,             \* VideoProcessor.preview_thread (0: None)
    pworkers,                   \* the preview worker threads, in spawn order
    temp_file,                  \* the file preview_temp.jpg
    now,                        \* the egui frame clock, ctx.input(|i| i.time)
    ctl,                        \* the position of the UI thread
    accepted_at,                \* history: when each target's request last passed the guards
    request,                    \* history: the last click on a preview button
    drained,                    \* history: what preview_panel last took from each slot
    calc                        \* a function of the program applied to an input

uivars == <<source_paths, start_time, end_time, rotation, disk>>
batchvars == <<batch_queue, processing, progress, message, workers, procs>>
previewvars == <<loading, frame, frame_lock, last_preview_request_time,
                 preview_thread, pworkers, temp_file, ctl, accepted_at>>
auxvars == <<request, drained, calc>>
vars == <<uivars, batchvars, previewvars, now, auxvars>>

------------------------------------------------------------------------------
(* Bounds of the model *)

MaxFiles == 2       \* source files dropped on the window
MaxRuns == 2        \* batch workers spawned in one behaviour
MaxLines == 1       \* stderr lines one ffmpeg child writes
MaxPreviews == 3    \* preview workers spawned in one behaviour
MaxClock == 12      \* the frame clock stops here (tenths of a second)
MaxName == 4        \* characters of a file name given to sanitize_filename
MaxParts == 4       \* colon-separated parts of a time= token
MaxRead == 3        \* stderr lines given to the reader's loop

------------------------------------------------------------------------------
(* Option values *)

None == [some |-> FALSE, val |-> 0]
Some(v) == [some |-> TRUE, val |-> v]

------------------------------------------------------------------------------
(* Text *)

Digits == {"0", "1", "2", "3", "4", "5", "6", "7", "8", "9"}

DigitVal(c) ==
    CASE c = "0" -> 0 [] c = "1" -> 1 [] c = "2" -> 2 [] c = "3" -> 3
      [] c = "4" -> 4 [] c = "5" -> 5 [] c = "6" -> 6 [] c = "7" -> 7
      [] c = "8" -> 8 [] c = "9" -> 9

AllDigits(s) == \A k \in 1..Len(s) : s[k] \in Digits

RECURSIVE NatOf(_)
NatOf(s) == IF s = <<>> THEN 0
            ELSE 10 * NatOf(SubSeq(s, 1, Len(s) - 1)) + DigitVal(s[Len(s)])

\* str::contains / the first match of str::split: the least index at or after
\* from where pat starts in s, 0 when there is none.
FindFrom(s, pat, from) ==
    LET hits == {k \in from..(Len(s) - Len(pat) + 1) :
                    SubSeq(s, k, k + Len(pat) - 1) = pat}
    IN  IF hits = {} THEN 0 ELSE CHOOSE k \in hits : \A j \in hits : k <= j

Contains(s, pat) == FindFrom(s, pat, 1) # 0

\* str::split(pat): the pieces of s between the occurrences of pat.
RECURSIVE Split(_, _)
Split(s, pat) ==
    LET k == FindFrom(s, pat, 1)
    IN  IF k = 0 THEN <<s>>
        ELSE <<SubSeq(s, 1, k - 1)>> \o Split(SubSeq(s, k + Len(pat), Len(s)), pat)

------------------------------------------------------------------------------
(* parse_ffmpeg_progress *)

\* f32::from_str on the decimal tokens ffmpeg prints: an optional sign, digits,
\* an optional point and digits (the exponent, inf and nan forms are not
\* modelled).  The value is in hundredths; digits past the second decimal are
\* dropped.
ParseF32(s) ==
    LET neg == s # <<>> /\ s[1] = "-"
        body == IF s # <<>> /\ s[1] \in {"-", "+"} THEN Tail(s) ELSE s
        dot == FindFrom(body, <<".">>, 1)
        int == IF dot = 0 THEN body ELSE SubSeq(body, 1, dot - 1)
        frac == IF dot = 0 THEN <<>> ELSE SubSeq(body, dot + 1, Len(body))
        frac2 == SubSeq(frac \o <<"0", "0">>, 1, 2)
        mag == 100 * NatOf(int) + NatOf(frac2)
    IN  IF AllDigits(int) /\ AllDigits(frac) /\ Len(int) + Len(frac) > 0
        THEN Some(IF neg THEN 0 - mag ELSE mag)
        ELSE None

TimeMarker == <<"t", "i", "m", "e", "=">>

\* A parser that knows the three-part form only.
ProgressOfParts_ThreeOnly(parts) ==
    LET f(k) == ParseF32(parts[k])
    IN  IF Len(parts) = 3 /\ f(1).some /\ f(2).some /\ f(3).some
        THEN Some(f(1).val * 3600 + f(2).val * 60 + f(3).val)
        ELSE None

\* The total of the parts in hundredths of a second, divided by 100 and kept in
\* ten-thousandths: the two cancel.
ProgressOfParts(parts) ==
    LET f(k) == ParseF32(parts[k])
    IN  CASE Len(parts) = 3 ->
               IF f(1).some /\ f(2).some /\ f(3).some
               THEN Some(f(1).val * 3600 + f(2).val * 60 + f(3).val)
               ELSE None
          [] Len(parts) = 2 ->
               IF f(1).some /\ f(2).some
               THEN Some(f(1).val * 60 + f(2).val)
               ELSE None
          [] OTHER -> None

parse_ffmpeg_progress(line) ==
    IF Contains(line, TimeMarker)
    THEN LET time_str == Split(Split(line, TimeMarker)[2], <<" ">>)[1]
         IN  ProgressOfParts(Split(time_str, <<":">>))
    ELSE None

------------------------------------------------------------------------------
(* compare_times *)

\* NaiveTime::from_str: hour, minute and second, one or two digits each,
\* separated by colons (fractions of a second are not modelled).  The value is
\* the second of the day.
ParseNaiveTime(s) ==
    LET p == Split(s, <<":">>)
        ok(k) == Len(p[k]) \in {1, 2} /\ AllDigits(p[k])
    IN  IF Len(p) = 3 /\ ok(1) /\ ok(2) /\ ok(3)
           /\ NatOf(p[1]) < 24 /\ NatOf(p[2]) < 60 /\ NatOf(p[3]) < 60
        THEN Some(NatOf(p[1]) * 3600 + NatOf(p[2]) * 60 + NatOf(p[3]))
        ELSE None

\* compare_times unwraps both parses: it panics unless both succeed.
CompareTimesPanics(time1, time2) ==
    ~ParseNaiveTime(time1).some \/ ~ParseNaiveTime(time2).some

compare_times(time1, time2) ==
    LET a == ParseNaiveTime(time1).val
        b == ParseNaiveTime(time2).val
    IN  IF a < b THEN "Less" ELSE IF a = b THEN "Equal" ELSE "Greater"

------------------------------------------------------------------------------
(* sanitize_filename *)

\* The characters of the model: the letters and digits of its file names, the
\* underscore, the slash, the dot, a CJK ideograph (named by its code point),
\* and two characters outside the character class of line 645.
Letters == {"a", "b", "c", "d", "m", "p"}
Cjk == {"U+4E2D"}
OtherChars == {"-", " "}
AllowedChars == Letters \cup Digits \cup {"_", "/", "."} \cup Cjk

\* A pattern that matches nothing.
RegexStrip_Keep(s) == s

\* Lines 645-646: every run of characters outside the class is replaced by "".
RegexStrip(s) == SelectSeq(s, LAMBDA c : c \in AllowedChars)

\* The index of the last dot of s, 0 when there is none.
LastDot(s) ==
    LET dots == {k \in 1..Len(s) : s[k] = "."}
    IN  IF dots = {} THEN 0 ELSE CHOOSE k \in dots : \A j \in dots : j <= k

\* Lines 649-663: the name is split at its last dot, the dots of the stem are
\* dropped, and the extension is put back unless it is empty.
sanitize_filename(filename) ==
    LET reg_filename == RegexStrip(filename)
        k == LastDot(reg_filename)
        stem == IF k = 0 THEN reg_filename ELSE SubSeq(reg_filename, 1, k - 1)
        extension == IF k = 0 THEN <<>>
                     ELSE SubSeq(reg_filename, k + 1, Len(reg_filename))
        sanitized_stem == SelectSeq(stem, LAMBDA c : c # ".")
    IN  IF extension = <<>> THEN sanitized_stem
        ELSE sanitized_stem \o <<".">> \o extension

------------------------------------------------------------------------------
(* generate_output_path *)

\* i32::to_string for the rotations, which are not negative.
RECURSIVE IntText(_)
IntText(n) ==
    LET d == <<"0", "1", "2", "3", "4", "5", "6", "7", "8", "9">>[(n % 10) + 1]
    IN  IF n < 10 THEN <<d>> ELSE IntText(n \div 10) \o <<d>>

\* str::replace: every occurrence of key in s becomes value.
RECURSIVE JoinWith(_, _)
JoinWith(pieces, value) ==
    IF Len(pieces) = 1 THEN pieces[1]
    ELSE pieces[1] \o value \o JoinWith(Tail(pieces), value)
Replace(s, key, value) == JoinWith(Split(s, key), value)

\* Path::file_stem and Path::extension of a file name: the name is split at
\* its last dot, unless that dot is its first character.
FileStem(name) ==
    IF LastDot(name) <= 1 THEN name ELSE SubSeq(name, 1, LastDot(name) - 1)
Extension(name) ==
    IF LastDot(name) <= 1 THEN None
    ELSE Some(SubSeq(name, LastDot(name) + 1, Len(name)))

\* Local::now() as the three formats of lines 706-708 print it.
ClockTimestamp == <<"2", "0", "2", "6", "1", "1", "0", "1", "0", "4", "0", "0", "0", "0">>
ClockDate == <<"2", "0", "2", "6", "-", "1", "1", "-", "0", "1">>
ClockTime == <<"0", "4", "-", "0", "0", "-", "0", "0">>

KeyInputName == <<"{", "i", "n", "p", "u", "t", "_", "n", "a", "m", "e", "}">>
KeyRotation == <<"{", "r", "o", "t", "a", "t", "i", "o", "n", "}">>
KeyTimestamp == <<"{", "t", "i", "m", "e", "s", "t", "a", "m", "p", "}">>
KeyDate == <<"{", "d", "a", "t", "e", "}">>
KeyTime == <<"{", "t", "i", "m", "e", "}">>

\* Lines 700-722: the template with its variables replaced, and the extension
\* of the input added when the result has no dot.
RenderFilename(input_name, template, rot) ==
    LET r1 == Replace(template, KeyInputName, FileStem(input_name))
        r2 == Replace(r1, KeyRotation, IntText(rot))
        r3 == Replace(r2, KeyTimestamp, ClockTimestamp)
        r4 == Replace(r3, KeyDate, ClockDate)
        r5 == Replace(r4, KeyTime, ClockTime)
        ext == Extension(input_name)
    IN  IF ext.some /\ ~Contains(r5, <<".">>)
        THEN r5 \o <<".">> \o ext.val
        ELSE r5

\* Path::join: an absolute filename replaces the directory; a separator is
\* put between the two unless the directory is empty or ends with one.
PathJoin(dir, filename) ==
    IF filename # <<>> /\ filename[1] = "/" THEN filename
    ELSE IF dir = <<>> \/ dir[Len(dir)] = "/" THEN dir \o filename
    ELSE dir \o <<"/">> \o filename

\* Lines 724-731: the joined path, with every character outside the class of
\* the pattern removed.
generate_output_path(input_name, output_dir, template, rot) ==
    RegexStrip(PathJoin(output_dir, RenderFilename(input_name, template, rot)))

------------------------------------------------------------------------------
(* The command line of process_task *)

Opt(s) == [opt |-> s]
TimeArg(t) == [time |-> t]
PathArg(p) == [path |-> p]
RotateArg(r) == [rotate |-> r]

\* Lines 748-776: the arguments given to Command::new("ffmpeg"), in order.
BuildArgs(task) ==
    LET input == <<Opt("-i"), PathArg(task.input_path)>>
        clip == IF compare_times(task.start_time, task.end_time) = "Less"
                THEN <<Opt("-ss"), TimeArg(task.start_time),
                       Opt("-to"), TimeArg(task.end_time),
                       Opt("-c:v"), Opt("copy"), Opt("-c:a"), Opt("copy"),
                       PathArg(task.output_path)>>
                ELSE <<>>
        rotate == IF task.rotation # 0
                  THEN <<Opt("-metadata:s:v"), RotateArg(task.rotation),
                         Opt("-codec"), Opt("copy"), PathArg(task.output_path)>>
                  ELSE <<>>
    IN  input \o clip \o rotate

------------------------------------------------------------------------------
(* Inputs of the model *)

Chars(a, b, c, d, e, f, g) == <<a, b, c, d, e, f, g>>

\* What the user types into the start and end time fields.
TimeZero == Chars("0", ":", "0", "0", ":", "0", "0")
TimeTen == Chars("0", ":", "0", "0", ":", "1", "0")
TimeBad == <<"a", "b", "c">>
StartTimes == {TimeZero, TimeBad}
EndTimes == {TimeZero, TimeTen}

\* The files the user drops on the window.
PathNames == <<"a.mp4", "b.mp4", "c.mp4", "d.mp4">>
Paths == {PathNames[k] : k \in 1..MaxFiles}

\* A file whose name has a space, and the name sanitize_filename gives it.
SpacedName == "a b.mp4"
JoinedName == "ab.mp4"

\* The characters of each file name.
NameText ==
    ("a.mp4" :> <<"a", ".", "m", "p", "4">>)
    @@ ("b.mp4" :> <<"b", ".", "m", "p", "4">>)
    @@ ("c.mp4" :> <<"c", ".", "m", "p", "4">>)
    @@ ("d.mp4" :> <<"d", ".", "m", "p", "4">>)
    @@ (SpacedName :> <<"a", " ", "b", ".", "m", "p", "4">>)
    @@ (JoinedName :> <<"a", "b", ".", "m", "p", "4">>)

\* The file name with these characters.
NameOf(text) == CHOOSE n \in DOMAIN NameText : NameText[n] = text

\* sanitize_filename on each file name.
SanitizedName == [n \in DOMAIN NameText |-> NameOf(sanitize_filename(NameText[n]))]

\* The files that exist when the program starts.
Files == Paths \cup {SpacedName}

\* The rotations of the combo box that the model selects.
Rotations == {0, 90}

\* What ffmpeg writes to stderr: "time=00:00:50.00", "time=00:02:00.00 x"
\* and a line without the marker.
LineHalf == TimeMarker \o <<"0", "0", ":", "0", "0", ":", "5", "0", ".", "0", "0">>
LineOver == TimeMarker \o <<"0", "0", ":", "0", "2", ":", "0", "0", ".", "0", "0", " ", "x">>
LineNoMarker == <<"f", "r", "a", "m", "e", "=", "1">>
DiagLines == {LineOver, LineNoMarker}

\* A line whose time token has a part that is no number: "time=00:0x:10.00 y".
LineMalformed ==
    TimeMarker \o <<"0", "0", ":", "0", "x", ":", "1", "0", ".", "0", "0", " ", "y">>
AllLines == DiagLines \cup {LineHalf, LineMalformed}

\* What the parser makes of each of these lines.
ParsedLine == [line \in AllLines |-> parse_ffmpeg_progress(line)]

ExitCodes == {0, 1}

------------------------------------------------------------------------------
(* The state after VideoProcessor::default() *)

IdleCtl == [pc |-> "idle", is_start |-> TRUE, thread |-> 0]

\* No function is being applied.
NoCalc == [op |-> "none"]

\* No preview button was clicked yet.
NoRequest == [seq |-> 0, is_start |-> TRUE, outcome |-> "none", recent |-> FALSE]

Default ==
    /\ source_paths = <<>>
    /\ start_time = TimeZero
    /\ end_time = TimeZero
    /\ rotation = 0
    /\ disk = Files
    /\ batch_queue = <<>>
    /\ processing = FALSE
    /\ progress = 0
    /\ message = <<>>
    /\ workers = <<>>
    /\ procs = {}
    /\ loading = [t \in BOOLEAN |-> FALSE]
    /\ frame = [t \in BOOLEAN |-> None]
    /\ frame_lock = [t \in BOOLEAN |-> 0]
    /\ last_preview_request_time = 0
    /\ preview_thread = 0
    /\ pworkers = <<>>
    /\ temp_file = None
    /\ now = 0
    /\ ctl = IdleCtl
    /\ accepted_at = [t \in BOOLEAN |-> -1]
    /\ request = NoRequest
    /\ drained = [t \in BOOLEAN |-> None]

Init == Default /\ calc = NoCalc

------------------------------------------------------------------------------
(* The preview service: generate_preview *)

Debounce == 5       \* 0.5 s, in tenths of a second

PreviewAlive(w) == pworkers[w].pc \notin {"done", "panicked"}

\* A request that drops the handle without joining it.
JoinBlocks_Never(thread) == FALSE

\* thread.join() keeps the UI thread while the taken handle's thread runs.
JoinBlocks(thread) == thread # 0 /\ PreviewAlive(thread)

\* Lines 261-314: the loading flag is set and the worker is spawned.
SpawnPreview(is_start) ==
    /\ loading' = [loading EXCEPT ![is_start] = TRUE]
    /\ pworkers' = Append(pworkers,
                          [pc |-> "ffmpeg", is_start |-> is_start, img_data |-> None])
    /\ preview_thread' = Len(pworkers) + 1
    /\ UNCHANGED <<frame, frame_lock, temp_file>>

\* A request that does not look at the frame clock.
GeneratePreview_NoDebounce(is_start) ==
    IF source_paths = <<>> \/ loading[is_start]
    THEN UNCHANGED previewvars
    ELSE /\ last_preview_request_time' = now
         /\ accepted_at' = [accepted_at EXCEPT ![is_start] = now]
         /\ IF JoinBlocks(preview_thread)
            THEN /\ ctl' = [pc |-> "join", is_start |-> is_start,
                            thread |-> preview_thread]
                 /\ preview_thread' = 0
                 /\ UNCHANGED <<loading, frame, frame_lock, pworkers, temp_file>>
            ELSE /\ SpawnPreview(is_start)
                 /\ ctl' = ctl

\* A request that stamps the request time before it returns at the loading or
\* the debounce guard.
GeneratePreview_StampsOnDrop(is_start) ==
    IF source_paths = <<>>
    THEN UNCHANGED previewvars
    ELSE IF loading[is_start] \/ now - last_preview_request_time < Debounce
    THEN /\ last_preview_request_time' = now
         /\ UNCHANGED <<loading, frame, frame_lock, preview_thread, pworkers,
                        temp_file, ctl, accepted_at>>
    ELSE /\ last_preview_request_time' = now
         /\ accepted_at' = [accepted_at EXCEPT ![is_start] = now]
         /\ IF JoinBlocks(preview_thread)
            THEN /\ ctl' = [pc |-> "join", is_start |-> is_start,
                            thread |-> preview_thread]
                 /\ preview_thread' = 0
                 /\ UNCHANGED <<loading, frame, frame_lock, pworkers, temp_file>>
            ELSE /\ SpawnPreview(is_start)
                 /\ ctl' = ctl

\* generate_preview(ctx, is_start) up to its return or to the join it waits in.
GeneratePreview(is_start) ==
    IF source_paths = <<>> \/ loading[is_start]
    THEN UNCHANGED previewvars
    ELSE IF now - last_preview_request_time < Debounce
    THEN UNCHANGED previewvars
    ELSE /\ last_preview_request_time' = now
         /\ accepted_at' = [accepted_at EXCEPT ![is_start] = now]
         /\ IF JoinBlocks(preview_thread)
            THEN /\ ctl' = [pc |-> "join", is_start |-> is_start,
                            thread |-> preview_thread]
                 /\ preview_thread' = 0
                 /\ UNCHANGED <<loading, frame, frame_lock, pworkers, temp_file>>
            ELSE /\ SpawnPreview(is_start)
                 /\ ctl' = ctl

------------------------------------------------------------------------------
(* The UI thread: files and parameters *)

\* handle_file_drop: a dropped path is pushed unless the list holds it.  The
\* files arrive in the order of PathNames.
AddFile(path) ==
    /\ ctl.pc = "idle"
    /\ Len(source_paths) < MaxFiles
    /\ path = PathNames[Len(source_paths) + 1]
    /\ \A k \in 1..Len(source_paths) : source_paths[k] # path
    /\ source_paths' = Append(source_paths, path)
    /\ UNCHANGED <<start_time, end_time, rotation, disk, batchvars, previewvars,
                   now, auxvars>>

\* handle_file_drop for any file of the file system, in any order.
DropFile(path) ==
    /\ ctl.pc = "idle"
    /\ Len(source_paths) < MaxFiles
    /\ path \in disk
    /\ \A k \in 1..Len(source_paths) : source_paths[k] # path
    /\ source_paths' = Append(source_paths, path)
    /\ UNCHANGED <<start_time, end_time, rotation, disk, batchvars, previewvars,
                   now, auxvars>>

\* clear_previews: the loading flags are reset; a slot is emptied when
\* try_lock gets its mutex.
ClearPreviews ==
    /\ loading' = [t \in BOOLEAN |-> FALSE]
    /\ frame' = [t \in BOOLEAN |-> IF frame_lock[t] = 0 THEN None ELSE frame[t]]
    /\ UNCHANGED <<frame_lock, last_preview_request_time, accepted_at, preview_thread,
                   pworkers, temp_file, ctl>>

\* file_management_panel, the clear-list button.
ClearList ==
    /\ ctl.pc = "idle"
    /\ source_paths' = <<>>
    /\ ClearPreviews
    /\ UNCHANGED <<start_time, end_time, rotation, disk, batchvars, now, auxvars>>

\* settings_panel: the start time field is edited; the start preview time
\* follows it and a start preview is requested.
EditStartTime(t) ==
    /\ ctl.pc = "idle"
    /\ t # start_time
    /\ Len(pworkers) < MaxPreviews
    /\ start_time' = t
    /\ GeneratePreview(TRUE)
    /\ UNCHANGED <<source_paths, end_time, rotation, disk, batchvars, now, auxvars>>

\* settings_panel: the end time field is edited.
EditEndTime(t) ==
    /\ ctl.pc = "idle"
    /\ t # end_time
    /\ Len(pworkers) < MaxPreviews
    /\ end_time' = t
    /\ GeneratePreview(FALSE)
    /\ UNCHANGED <<source_paths, start_time, rotation, disk, batchvars, now, auxvars>>

\* settings_panel: another rotation is selected.  Both previews are requested,
\* the start one first (lines 554-567); both calls read the same frame time, so
\* the second call is dropped by the debounce guard unless the first returned
\* at the loading guard.
EditRotation(r) ==
    /\ ctl.pc = "idle"
    /\ r # rotation
    /\ Len(pworkers) < MaxPreviews
    /\ rotation' = r
    /\ IF source_paths # <<>> /\ loading[TRUE]
       THEN GeneratePreview(FALSE)
       ELSE GeneratePreview(TRUE)
    /\ UNCHANGED <<source_paths, start_time, end_time, disk, batchvars, now, auxvars>>

------------------------------------------------------------------------------
(* The batch controller: process_control *)

\* rename_file on the files d: the file gets its sanitized name.  Err when the
\* name changes and the file does not exist; fs::rename replaces a file that
\* has the new name.
rename_file(path, d) ==
    LET new_path == SanitizedName[path]
    IN  IF path = new_path THEN [ok |-> TRUE, path |-> path, disk |-> d]
        ELSE IF path \in d
        THEN [ok |-> TRUE, path |-> new_path, disk |-> (d \ {path}) \cup {new_path}]
        ELSE [ok |-> FALSE, path |-> path, disk |-> d]

\* generate_output_path for each path in turn, lines 691-698: the input path of
\* a task is the renamed path, or the source path when the rename failed.
RECURSIVE RenameAll(_, _)
RenameAll(paths, d) ==
    IF paths = <<>> THEN [inputs |-> <<>>, disk |-> d]
    ELSE LET r == rename_file(Head(paths), d)
             rest == RenameAll(Tail(paths), r.disk)
         IN  [inputs |-> <<r.path>> \o rest.inputs, disk |-> rest.disk]

\* A task builder that goes through the source list from its end.
prepare_batch_tasks_Reversed ==
    LET inputs == RenameAll(source_paths, disk).inputs
        n == Len(source_paths)
    IN  [k \in 1..n |->
            [input_path |-> inputs[n + 1 - k],
             start_time |-> start_time,
             end_time |-> end_time,
             rotation |-> rotation]]

\* prepare_batch_tasks: one task per source path, in list order, with the
\* parameters as they are now (the output path is not carried in the model).
prepare_batch_tasks ==
    LET inputs == RenameAll(source_paths, disk).inputs
    IN  [k \in 1..Len(source_paths) |->
            [input_path |-> inputs[k],
             start_time |-> start_time,
             end_time |-> end_time,
             rotation |-> rotation]]

\* A worker thread as std::thread::spawn leaves it.  invoked and failed_at
\* record what happened: the tasks handed to process_task, and the task whose
\* process_task returned Err (0: none).
NewWorker(tasks) ==
    [pc |-> "set_flag", tasks |-> tasks, i |-> 1, err |-> "",
     invoked |-> <<>>, failed_at |-> 0]

\* A thread that has ended, normally or by a panic, keeps nothing.
EndedWorker(pc) ==
    [pc |-> pc, tasks |-> <<>>, i |-> 1, err |-> "", invoked |-> <<>>, failed_at |-> 0]

WorkerAlive(w) == workers[w].pc \notin {"finished", "panicked"}

\* The start button: enabled while the flag reads false.
StartProcessing ==
    /\ ctl.pc = "idle"
    /\ ~processing
    /\ Len(workers) < MaxRuns
    /\ batch_queue' = prepare_batch_tasks
    /\ disk' = RenameAll(source_paths, disk).disk
    /\ workers' = Append(workers, NewWorker(batch_queue'))
    /\ UNCHANGED <<source_paths, start_time, end_time, rotation, processing, progress,
                   message, procs, previewvars, now, auxvars>>

\* The stop button: the flag is set to false.
StopProcessing ==
    /\ ctl.pc = "idle"
    /\ processing' = FALSE
    /\ UNCHANGED <<uivars, batch_queue, progress, message, workers, procs,
                   previewvars, now, auxvars>>

\* Line 589.
W_SetFlag(w) ==
    /\ w \in DOMAIN workers
    /\ workers[w].pc = "set_flag"
    /\ processing' = TRUE
    /\ workers' = [workers EXCEPT ![w].pc = "loop"]
    /\ UNCHANGED <<uivars, batch_queue, progress, message, procs, previewvars, now, auxvars>>

\* Lines 590-591: the loop takes the next task and publishes its status.
W_Publish(w) ==
    /\ w \in DOMAIN workers
    /\ workers[w].pc = "loop"
    /\ workers[w].i <= Len(workers[w].tasks)
    /\ message' = <<"processing: ", workers[w].tasks[workers[w].i].input_path>>
    /\ workers' = [workers EXCEPT ![w].pc = "run"]
    /\ UNCHANGED <<uivars, batch_queue, processing, progress, procs, previewvars, now, auxvars>>

\* A loop that goes on to the next task after an error.
AfterErr_Continue(wk, e) ==
    [wk EXCEPT !.pc = "loop", !.i = wk.i + 1, !.err = e, !.failed_at = wk.i]

\* The worker's position after process_task returned Err(e): lines 593-594.
AfterErr(wk, e) == [wk EXCEPT !.pc = "err", !.err = e, !.failed_at = wk.i]

\* A loop that takes the same task again.
AfterOk_SameTask(wk) == [wk EXCEPT !.pc = "loop"]

\* The worker's position after process_task returned Ok: the loop goes on.
AfterOk(wk) == [wk EXCEPT !.pc = "loop", !.i = wk.i + 1]

\* process_task, lines 741-800: the output directory, the command line, the
\* child and its stderr reader.  The environment decides whether the directory
\* can be created and whether ffmpeg can be started.
W_Launch(w, outcome) ==
    LET wk == [workers[w] EXCEPT !.invoked = Append(workers[w].invoked, workers[w].i)]
        task == wk.tasks[wk.i]
    IN  /\ w \in DOMAIN workers
        /\ workers[w].pc = "run"
        /\ IF outcome = "mkdir_err"
           THEN /\ workers' = [workers EXCEPT ![w] = AfterErr(wk, "create dir failed")]
                /\ procs' = procs
           ELSE IF CompareTimesPanics(task.start_time, task.end_time)
           THEN /\ workers' = [workers EXCEPT ![w] = EndedWorker("panicked")]
                /\ procs' = procs
           ELSE IF outcome = "spawn_err"
           THEN /\ workers' = [workers EXCEPT ![w] = AfterErr(wk, "start ffmpeg failed")]
                /\ procs' = procs
           ELSE /\ workers' = [workers EXCEPT ![w] = [wk EXCEPT !.pc = "wait"]]
                /\ procs' = procs \cup {[w |-> w, i |-> wk.i, st |-> "running",
                                         code |-> 0, nout |-> 0, buf |-> <<>>,
                                         reader |-> TRUE]}
        /\ UNCHANGED <<uivars, batch_queue, processing, progress, message,
                       previewvars, now, auxvars>>

\* A child that was waited for and whose reader has ended is gone.
Reap(ps) == {p \in ps : ~(p.st = "reaped" /\ ~p.reader)}

\* process_task, lines 803-811: child.wait() returns once the child has exited
\* (a wait that fails is not modelled: the child is the thread's own).
W_Wait(w) ==
    /\ w \in DOMAIN workers
    /\ workers[w].pc = "wait"
    /\ \E p \in procs :
          /\ p.w = w /\ p.i = workers[w].i /\ p.st = "exited"
          /\ procs' = Reap((procs \ {p}) \cup {[p EXCEPT !.st = "reaped"]})
          /\ workers' = [workers EXCEPT ![w] =
                IF p.code = 0 THEN AfterOk(workers[w])
                ELSE AfterErr(workers[w], "ffmpeg failed, exit code 1")]
    /\ UNCHANGED <<uivars, batch_queue, processing, progress, message,
                   previewvars, now, auxvars>>

\* Lines 593-594: the error is published and the loop is left.
W_Error(w) ==
    /\ w \in DOMAIN workers
    /\ workers[w].pc = "err"
    /\ message' = <<"error: ", workers[w].err>>
    /\ workers' = [workers EXCEPT ![w].pc = "broke"]
    /\ UNCHANGED <<uivars, batch_queue, processing, progress, procs, previewvars, now, auxvars>>

\* Line 598, reached when the queue is exhausted and after a break.
W_Complete(w) ==
    /\ w \in DOMAIN workers
    /\ IF workers[w].pc = "loop"
       THEN workers[w].i > Len(workers[w].tasks)
       ELSE workers[w].pc = "broke"
    /\ message' = <<"done">>
    /\ workers' = [workers EXCEPT ![w].pc = "reset"]
    /\ UNCHANGED <<uivars, batch_queue, processing, progress, procs, previewvars, now, auxvars>>

\* Line 600.
W_Reset(w) ==
    /\ w \in DOMAIN workers
    /\ workers[w].pc = "reset"
    /\ progress' = 0
    /\ workers' = [workers EXCEPT ![w].pc = "clear_flag"]
    /\ UNCHANGED <<uivars, batch_queue, processing, message, procs, previewvars, now, auxvars>>

\* Line 601: the thread ends.
W_ClearFlag(w) ==
    /\ w \in DOMAIN workers
    /\ workers[w].pc = "clear_flag"
    /\ processing' = FALSE
    /\ workers' = [workers EXCEPT ![w] = EndedWorker("finished")]
    /\ UNCHANGED <<uivars, batch_queue, progress, message, procs, previewvars, now, auxvars>>

LaunchOutcomes == {"mkdir_err", "spawn_err", "spawned"}

WorkerStep(w) ==
    \/ W_SetFlag(w)
    \/ W_Publish(w)
    \/ \E outcome \in LaunchOutcomes : W_Launch(w, outcome)
    \/ W_Wait(w)
    \/ W_Error(w)
    \/ W_Complete(w)
    \/ W_Reset(w)
    \/ W_ClearFlag(w)

------------------------------------------------------------------------------
(* The ffmpeg child of a task and the thread that reads its stderr *)

\* The child of task i of worker w, and the same child changed.
ProcOf(w, i) == {p \in procs : p.w = w /\ p.i = i}
Put(p, q) == (procs \ {p}) \cup {q}

\* The child writes a diagnostic line to its stderr pipe.
P_Emit(w, i, line) ==
    /\ \E p \in ProcOf(w, i) :
          /\ p.st = "running"
          /\ p.nout < MaxLines
          /\ procs' = Put(p, [p EXCEPT !.buf = Append(p.buf, line),
                                       !.nout = p.nout + 1])
    /\ UNCHANGED <<uivars, batch_queue, processing, progress, message, workers,
                   previewvars, now, auxvars>>

\* The child exits: its end of the pipe closes.
P_Exit(w, i, code) ==
    /\ \E p \in ProcOf(w, i) :
          /\ p.st = "running"
          /\ procs' = Put(p, [p EXCEPT !.st = "exited", !.code = code, !.nout = 0])
    /\ UNCHANGED <<uivars, batch_queue, processing, progress, message, workers,
                   previewvars, now, auxvars>>

\* A reader that clears the progress cell when a line gives no value.
ProgressAfter_Zero(line) ==
    LET r == ParsedLine[line]
    IN  IF r.some THEN r.val ELSE 0

\* The value the reader leaves in the progress cell after a line.
ProgressAfter(line) ==
    LET r == ParsedLine[line]
    IN  IF r.some THEN r.val ELSE progress

\* Lines 793-798: the reader takes a line and stores what the parser found.
R_Read(w, i) ==
    /\ \E p \in ProcOf(w, i) :
          /\ p.reader
          /\ p.buf # <<>>
          /\ progress' = ProgressAfter(Head(p.buf))
          /\ procs' = Put(p, [p EXCEPT !.buf = Tail(p.buf)])
    /\ UNCHANGED <<uivars, batch_queue, processing, message, workers, previewvars, now, auxvars>>

\* Line 793: the pipe is empty and closed, the reader thread ends.
R_Eof(w, i) ==
    /\ \E p \in ProcOf(w, i) :
          /\ p.reader
          /\ p.buf = <<>>
          /\ p.st # "running"
          /\ procs' = Reap(Put(p, [p EXCEPT !.reader = FALSE]))
    /\ UNCHANGED <<uivars, batch_queue, processing, progress, message, workers,
                   previewvars, now, auxvars>>

ChildExits(w) == \E i \in 1..MaxFiles, code \in ExitCodes : P_Exit(w, i, code)

ReaderStep(w) == \E i \in 1..MaxFiles : R_Read(w, i) \/ R_Eof(w, i)

------------------------------------------------------------------------------
(* The preview service: the worker thread, preview_panel, the frame clock *)

PreviewOutcomes == {"not_started", "success", "failure"}

\* Lines 297-304: ffmpeg runs to its end.  A successful run has written the
\* temporary file; a run that cannot be started panics the thread.
PW_Ffmpeg(w, outcome) ==
    /\ w \in DOMAIN pworkers
    /\ pworkers[w].pc = "ffmpeg"
    /\ pworkers' = [pworkers EXCEPT ![w].pc =
                       IF outcome = "not_started" THEN "panicked" ELSE "read"]
    /\ temp_file' = IF outcome = "success" THEN Some(w) ELSE temp_file
    /\ UNCHANGED <<uivars, batchvars, loading, frame, frame_lock,
                   last_preview_request_time, accepted_at, preview_thread, ctl, now, auxvars>>

\* Line 307.
PW_Read(w) ==
    /\ w \in DOMAIN pworkers
    /\ pworkers[w].pc = "read"
    /\ pworkers' = [pworkers EXCEPT ![w].pc = "remove", ![w].img_data = temp_file]
    /\ UNCHANGED <<uivars, batchvars, loading, frame, frame_lock,
                   last_preview_request_time, accepted_at, preview_thread, temp_file,
                   ctl, now, auxvars>>

\* A worker that leaves the temporary file behind.
PW_Remove_Keeps(w) ==
    /\ w \in DOMAIN pworkers
    /\ pworkers[w].pc = "remove"
    /\ pworkers' = [pworkers EXCEPT ![w].pc = "lock"]
    /\ UNCHANGED <<uivars, batchvars, loading, frame, frame_lock, temp_file,
                   last_preview_request_time, accepted_at, preview_thread, ctl,
                   now, auxvars>>

\* Line 308.
PW_Remove(w) ==
    /\ w \in DOMAIN pworkers
    /\ pworkers[w].pc = "remove"
    /\ temp_file' = None
    /\ pworkers' = [pworkers EXCEPT ![w].pc = "lock"]
    /\ UNCHANGED <<uivars, batchvars, loading, frame, frame_lock,
                   last_preview_request_time, accepted_at, preview_thread, ctl, now, auxvars>>

\* Line 311: the worker waits for the slot's mutex.
PW_Lock(w) ==
    /\ w \in DOMAIN pworkers
    /\ pworkers[w].pc = "lock"
    /\ frame_lock[pworkers[w].is_start] = 0
    /\ frame_lock' = [frame_lock EXCEPT ![pworkers[w].is_start] = w]
    /\ pworkers' = [pworkers EXCEPT ![w].pc = "store"]
    /\ UNCHANGED <<uivars, batchvars, loading, frame, last_preview_request_time, accepted_at,
                   preview_thread, temp_file, ctl, now, auxvars>>

\* Lines 312-314: the slot is written, the guard is dropped, the thread ends.
PW_Store(w) ==
    /\ w \in DOMAIN pworkers
    /\ pworkers[w].pc = "store"
    /\ frame' = [frame EXCEPT ![pworkers[w].is_start] = pworkers[w].img_data]
    /\ frame_lock' = [frame_lock EXCEPT ![pworkers[w].is_start] = 0]
    /\ pworkers' = [pworkers EXCEPT ![w].pc = "done"]
    /\ UNCHANGED <<uivars, batchvars, loading, last_preview_request_time, accepted_at,
                   preview_thread, temp_file, ctl, now, auxvars>>

\* Within the debounce window of the last request that passed the guards for
\* this target.
Recent(is_start) ==
    accepted_at[is_start] >= 0 /\ now - accepted_at[is_start] < Debounce

\* The guard of generate_preview that returns first, lines 242-254.
GuardOutcome(is_start) ==
    IF source_paths = <<>> THEN "no_source"
    ELSE IF loading[is_start] THEN "loading"
    ELSE IF now - last_preview_request_time < Debounce THEN "debounced"
    ELSE "accepted"

\* The preview button of a target.
RequestPreview(is_start) ==
    /\ ctl.pc = "idle"
    /\ Len(pworkers) < MaxPreviews
    /\ GeneratePreview(is_start)
    /\ request' = [seq |-> 1 - request.seq, is_start |-> is_start,
                   outcome |-> GuardOutcome(is_start), recent |-> Recent(is_start)]
    /\ UNCHANGED <<uivars, batchvars, now, drained, calc>>

\* Lines 257-259 and on: the joined thread has ended, generate_preview goes on.
JoinReturns ==
    /\ ctl.pc = "join"
    /\ ~PreviewAlive(ctl.thread)
    /\ SpawnPreview(ctl.is_start)
    /\ ctl' = IdleCtl
    /\ UNCHANGED <<uivars, batchvars, last_preview_request_time, accepted_at, now, auxvars>>

\* A slot that try_lock gets and that holds bytes is drained.
Drained(t) == frame_lock[t] = 0 /\ frame[t].some

\* preview_panel, lines 415-439: both slots are polled.
PreviewPanel ==
    /\ ctl.pc = "idle"
    /\ frame' = [t \in BOOLEAN |-> IF Drained(t) THEN None ELSE frame[t]]
    /\ loading' = [t \in BOOLEAN |-> IF Drained(t) THEN FALSE ELSE loading[t]]
    /\ drained' = [t \in BOOLEAN |-> IF Drained(t) THEN frame[t] ELSE drained[t]]
    /\ UNCHANGED <<uivars, batchvars, frame_lock, last_preview_request_time, accepted_at,
                   preview_thread, pworkers, temp_file, ctl, now, request, calc>>

FrameSteps == {2, 5}

\* Time passes on the frame clock.
Tick(d) ==
    /\ now + d <= MaxClock
    /\ now' = now + d
    /\ UNCHANGED <<uivars, batchvars, previewvars, auxvars>>

------------------------------------------------------------------------------
(* Specifications *)

\* The steps of the batch workers, of their ffmpeg children and of the stderr
\* readers.
BatchThreads ==
    \/ \E w \in 1..MaxRuns : W_SetFlag(w)
    \/ \E w \in 1..MaxRuns : W_Publish(w)
    \/ \E w \in 1..MaxRuns, outcome \in LaunchOutcomes : W_Launch(w, outcome)
    \/ \E w \in 1..MaxRuns : W_Wait(w)
    \/ \E w \in 1..MaxRuns : W_Error(w)
    \/ \E w \in 1..MaxRuns : W_Complete(w)
    \/ \E w \in 1..MaxRuns : W_Reset(w)
    \/ \E w \in 1..MaxRuns : W_ClearFlag(w)
    \/ \E w \in 1..MaxRuns, i \in 1..MaxFiles, line \in DiagLines : P_Emit(w, i, line)
    \/ \E w \in 1..MaxRuns, i \in 1..MaxFiles, code \in ExitCodes : P_Exit(w, i, code)
    \/ \E w \in 1..MaxRuns, i \in 1..MaxFiles : R_Read(w, i)
    \/ \E w \in 1..MaxRuns, i \in 1..MaxFiles : R_Eof(w, i)

\* The batch controller, with the frame clock inside the first debounce window.
Next ==
    \/ \E path \in Paths : AddFile(path)
    \/ \E t \in StartTimes : EditStartTime(t)
    \/ StartProcessing
    \/ StopProcessing
    \/ BatchThreads

Spec == Init /\ [][Next]_vars

\* The threads the operating system schedules go on whenever they can, and
\* every spawned ffmpeg child exits; the user owes no click.
Fairness ==
    \A w \in 1..MaxRuns :
        /\ WF_vars(WorkerStep(w))
        /\ WF_vars(ReaderStep(w))
        /\ WF_vars(ChildExits(w))

\* The first start request of a session.
FirstStart == workers = <<>> /\ StartProcessing

\* One batch run, under fair scheduling.
OneRunNext ==
    \/ \E path \in Paths : AddFile(path)
    \/ \E t \in StartTimes : EditStartTime(t)
    \/ FirstStart
    \/ StopProcessing
    \/ BatchThreads

OneRunSpec == Init /\ [][OneRunNext]_vars /\ Fairness

\* One batch run while the user goes on editing the list and the parameters.
SnapshotNext ==
    \/ \E path \in Paths : AddFile(path)
    \/ ClearList
    \/ \E t \in StartTimes : EditStartTime(t)
    \/ \E t \in EndTimes : EditEndTime(t)
    \/ \E r \in Rotations : EditRotation(r)
    \/ FirstStart
    \/ StopProcessing
    \/ BatchThreads

SnapshotSpec == Init /\ [][SnapshotNext]_vars

\* The handlers of the UI thread over any files of the file system, before
\* a spawned worker is scheduled.
UiNext ==
    \/ \E path \in Files : DropFile(path)
    \/ ClearList
    \/ \E t \in StartTimes : EditStartTime(t)
    \/ \E t \in EndTimes : EditEndTime(t)
    \/ \E r \in Rotations : EditRotation(r)
    \/ StartProcessing
    \/ StopProcessing

UiSpec == Init /\ [][UiNext]_vars

\* The preview service, with the batch controller idle.
PreviewNext ==
    \/ \E path \in Paths : AddFile(path)
    \/ ClearList
    \/ \E t \in BOOLEAN : RequestPreview(t)
    \/ JoinReturns
    \/ PreviewPanel
    \/ \E d \in FrameSteps : Tick(d)
    \/ \E w \in 1..MaxPreviews, outcome \in PreviewOutcomes : PW_Ffmpeg(w, outcome)
    \/ \E w \in 1..MaxPreviews : PW_Read(w)
    \/ \E w \in 1..MaxPreviews : PW_Remove(w)
    \/ \E w \in 1..MaxPreviews : PW_Lock(w)
    \/ \E w \in 1..MaxPreviews : PW_Store(w)

PreviewSpec == Init /\ [][PreviewNext]_vars

\* A step of preview worker w.
PreviewWorkerStep(w) ==
    \/ \E outcome \in PreviewOutcomes : PW_Ffmpeg(w, outcome)
    \/ PW_Read(w)
    \/ PW_Remove(w)
    \/ PW_Lock(w)
    \/ PW_Store(w)

\* The preview workers go on whenever they can, their ffmpeg ends, and egui
\* keeps calling update, which polls the slots and returns from a join.
PreviewFairness ==
    /\ \A w \in 1..MaxPreviews : WF_vars(PreviewWorkerStep(w))
    /\ WF_vars(PreviewPanel)
    /\ WF_vars(JoinReturns)

\* The preview service under fair scheduling.
PreviewLiveSpec == Init /\ [][PreviewNext]_vars /\ PreviewFairness

------------------------------------------------------------------------------
(* The functions of the program, applied to the inputs of a bounded set *)

\* File names of up to MaxName characters.
NameChars == {"a", "7", "_", "/", "."} \cup Cjk \cup OtherChars
Names == UNION {[1..n -> NameChars] : n \in 0..MaxName}

\* Numbers as ffmpeg prints them in a time= token, with their value in
\* hundredths: "00", "01" and "30.50".
NumTokens ==
    {[text |-> <<"0", "0">>, val |-> 0],
     [text |-> <<"0", "1">>, val |-> 100],
     [text |-> <<"3", "0", ".", "5", "0">>, val |-> 3050]}
PartLists == UNION {[1..n -> NumTokens] : n \in 1..MaxParts}

\* The parts joined by colons.
RECURSIVE JoinParts(_)
JoinParts(parts) ==
    IF Len(parts) = 1 THEN parts[1].text
    ELSE parts[1].text \o <<":">> \o JoinParts(Tail(parts))

\* A progress line of ffmpeg: "q=1 time=<token> x".
ProgressLine(parts) ==
    <<"q", "=", "1", " ">> \o TimeMarker \o JoinParts(parts) \o <<" ", "x">>

\* Tasks as prepare_batch_tasks builds them from the fields of the window.
\* Output directories "da", "d a" and "d-a", and the templates
\* "{input_name}_{rotation}" and "{input_name}_{date}".
OutputDirs == {<<"d", "a">>, <<"d", " ", "a">>, <<"d", "-", "a">>}
Templates == {KeyInputName \o <<"_">> \o KeyRotation,
              KeyInputName \o <<"_">> \o KeyDate}

TaskTimes == {TimeZero, TimeTen, TimeBad}
Tasks ==
    [input_path : {"a.mp4"}, output_path : {"output/a.mp4"},
     start_time : TaskTimes, end_time : TaskTimes, rotation : Rotations]

CalcInputs ==
    {[op |-> "sanitize_filename", input |-> s, once |-> <<>>, twice |-> <<>>,
      n |-> 0] : s \in Names}
    \cup {[op |-> "parse_ffmpeg_progress", parts |-> ps, out |-> None,
           done |-> FALSE] : ps \in PartLists}
    \cup {[op |-> "process_task", task |-> t, args |-> <<>>, st |-> "new"] :
             t \in Tasks}
    \cup {[op |-> "reader", lines |-> ls, k |-> 0, seen |-> <<>>] :
             ls \in UNION {[1..n -> AllLines] : n \in 1..MaxRead}}
    \cup {[op |-> "generate_output_path", input_name |-> NameText["a.mp4"],
           output_dir |-> d, template |-> t, rotation |-> r,
           filename |-> <<>>, output_path |-> <<>>, done |-> FALSE] :
             d \in OutputDirs, t \in Templates, r \in Rotations}

FnInit == Default /\ calc \in CalcInputs

\* sanitize_filename is applied to the input, and then to its own result.
CalcSanitize ==
    /\ calc.op = "sanitize_filename"
    /\ calc.n < 2
    /\ calc' = IF calc.n = 0
               THEN [calc EXCEPT !.once = sanitize_filename(calc.input), !.n = 1]
               ELSE [calc EXCEPT !.twice = sanitize_filename(calc.once), !.n = 2]
    /\ UNCHANGED <<uivars, batchvars, previewvars, now, request, drained>>

\* parse_ffmpeg_progress is applied to the progress line of the parts.
CalcProgress ==
    /\ calc.op = "parse_ffmpeg_progress"
    /\ ~calc.done
    /\ calc' = [calc EXCEPT !.out = parse_ffmpeg_progress(ProgressLine(calc.parts)),
                            !.done = TRUE]
    /\ UNCHANGED <<uivars, batchvars, previewvars, now, request, drained>>

\* process_task builds the command line of the task, lines 748-776;
\* compare_times panics before that when a time does not parse.
CalcArgs ==
    /\ calc.op = "process_task"
    /\ calc.st = "new"
    /\ calc' = IF CompareTimesPanics(calc.task.start_time, calc.task.end_time)
               THEN [calc EXCEPT !.st = "panicked"]
               ELSE [calc EXCEPT !.args = BuildArgs(calc.task), !.st = "built"]
    /\ UNCHANGED <<uivars, batchvars, previewvars, now, request, drained>>

\* generate_output_path is applied to a renamed input, an output directory,
\* a template and a rotation.
CalcOutputPath ==
    /\ calc.op = "generate_output_path"
    /\ ~calc.done
    /\ calc' = [calc EXCEPT
          !.filename = RenderFilename(calc.input_name, calc.template, calc.rotation),
          !.output_path = generate_output_path(calc.input_name, calc.output_dir,
                                               calc.template, calc.rotation),
          !.done = TRUE]
    /\ UNCHANGED <<uivars, batchvars, previewvars, now, request, drained>>

\* The loop of the stderr reader, lines 793-799, takes the next of the lines;
\* seen records the progress cell after each line.
CalcRead ==
    /\ calc.op = "reader"
    /\ calc.k < Len(calc.lines)
    /\ progress' = ProgressAfter(calc.lines[calc.k + 1])
    /\ calc' = [calc EXCEPT !.k = calc.k + 1, !.seen = Append(calc.seen, progress')]
    /\ UNCHANGED <<uivars, batch_queue, processing, message, workers, procs,
                   previewvars, now, request, drained>>

FnNext == CalcSanitize \/ CalcProgress \/ CalcArgs \/ CalcOutputPath \/ CalcRead

FnSpec == FnInit /\ [][FnNext]_vars

------------------------------------------------------------------------------
(* Claims about the batch controller *)

\* C1: once process_task has returned an error for task k of a run, no task
\* with an index greater than k is handed to process_task in that run.
C1_NoTaskAfterError ==
    \A w \in DOMAIN workers :
        workers[w].failed_at # 0 =>
            \A n \in 1..Len(workers[w].invoked) :
                workers[w].invoked[n] <= workers[w].failed_at

\* A run of two tasks whose first task failed has left the loop, and only the
\* first task was handed over.
C1_Witness ==
    \E w \in DOMAIN workers :
        /\ workers[w].pc = "clear_flag"
        /\ Len(workers[w].tasks) = 2
        /\ workers[w].failed_at = 1
        /\ workers[w].invoked = <<1>>

\* C2: when a task of a run has failed, the message the worker leaves behind
\* as it ends is that task's error text.
C2_ErrorTextStays ==
    [][\A w \in 1..MaxRuns :
          (/\ w \in DOMAIN workers
           /\ workers[w].failed_at # 0
           /\ workers'[w].pc = "finished")
          => message' = <<"error: ", workers[w].err>>]_vars

\* C3: at most one batch worker is alive, and at most one ffmpeg child of a
\* batch task runs.
C3_SingleWorker ==
    /\ Cardinality({w \in DOMAIN workers : WorkerAlive(w)}) <= 1
    /\ Cardinality({p \in procs : p.st = "running"}) <= 1

\* C4: the loop of a run takes no new task from its queue while the
\* processing flag reads false (in one run: after a stop request).
C4_NoTaskAfterStop ==
    [][\A w \in 1..MaxRuns :
          (/\ w \in DOMAIN workers
           /\ workers[w].pc = "loop"
           /\ workers'[w].pc = "run")
          => processing]_vars

\* C5: a run hands its tasks to process_task in queue order, each at most
\* once, and the child of a task is spawned only after the children of the
\* tasks before it have exited.
C5_InOrderOneAtATime ==
    \A w \in DOMAIN workers :
        /\ Len(workers[w].invoked) <= Len(workers[w].tasks)
        /\ workers[w].invoked = [n \in 1..Len(workers[w].invoked) |-> n]
        /\ \A p \in procs, q \in procs :
              (p.w = w /\ q.w = w /\ p.i < q.i) => p.st # "running"
        /\ Cardinality({p \in procs : p.w = w /\ p.st = "running"}) <= 1

\* The child of the second task of a run is running; the child of the first
\* has exited and was waited for, and its reader has not yet ended.
C5_Witness ==
    \E w \in DOMAIN workers :
        /\ workers[w].invoked = <<1, 2>>
        /\ \E p \in procs : p.w = w /\ p.i = 2 /\ p.st = "running"
        /\ \E q \in procs : q.w = w /\ q.i = 1 /\ q.st = "reaped"

\* C6: progress is in [0.0, 1.0] (0 to 10000 ten-thousandths).
C6_ProgressInUnitInterval == progress >= 0 /\ progress <= 10000

\* C7: while no batch run is in progress, progress is 0.0.
C7_IdleProgressZero ==
    (~processing /\ \A w \in DOMAIN workers : ~WorkerAlive(w)) => progress = 0

\* C8: a run that has set the processing flag eventually leaves Running: the
\* flag becomes false again.
C8_EventuallyIdle == processing ~> ~processing

\* The tasks are one per source path, in list order, with the parameters of
\* the window.
IsSnapshot(tasks) ==
    /\ Len(tasks) = Len(source_paths)
    /\ \A k \in 1..Len(tasks) :
          /\ tasks[k].input_path \in {source_paths[k], SanitizedName[source_paths[k]]}
          /\ tasks[k].start_time = start_time
          /\ tasks[k].end_time = end_time
          /\ tasks[k].rotation = rotation

\* C21: the worker a start request spawns gets one task per source path, in
\* list order, with the start_time, end_time and rotation of that moment, and
\* while a worker lives its tasks and their order stay as they are, whatever
\* is edited meanwhile.
C21_RunOnSnapshot ==
    [][/\ Len(workers') > Len(workers) => IsSnapshot(workers'[Len(workers')].tasks)
       /\ \A w \in DOMAIN workers :
             WorkerAlive(w)' => workers'[w].tasks = workers[w].tasks]_vars

\* The first of two tasks is done and the second is still to be run; meanwhile
\* the list was cleared and the times and the rotation were changed.
C21_Witness ==
    \E w \in DOMAIN workers :
        /\ workers[w].pc = "loop"
        /\ workers[w].i = 2
        /\ Len(workers[w].tasks) = 2
        /\ source_paths = <<>>
        /\ workers[w].tasks[2].end_time # end_time
        /\ workers[w].tasks[2].rotation # rotation

\* C24: every entry of the source list names a file that exists, also after
\* start requests have built their tasks.
C24_SourcesExist ==
    \A k \in 1..Len(source_paths) : source_paths[k] \in disk

------------------------------------------------------------------------------
(* Claims about the preview service *)

InFlight(t) == {w \in DOMAIN pworkers : PreviewAlive(w) /\ pworkers[w].is_start = t}

\* C9: at most one preview worker of a target is in flight.
C9_SingleFlight == \A t \in BOOLEAN : Cardinality(InFlight(t)) <= 1

\* A request for a target was accepted after clear_previews reset the loading
\* flag while that target's worker was still running: the request waits in the
\* join and no second worker exists.
C9_Witness ==
    /\ ctl.pc = "join"
    /\ PreviewAlive(ctl.thread)
    /\ pworkers[ctl.thread].is_start = ctl.is_start
    /\ ~loading[ctl.is_start]

\* C10: the UI thread never waits for a preview worker.
C10_NeverBlocks == ctl.pc = "idle"

\* C11: a loading flag that an accepted request has set is eventually cleared,
\* also when the worker found no bytes in the temporary file.
C11_LoadingClears ==
    /\ loading[TRUE] ~> ~loading[TRUE]
    /\ loading[FALSE] ~> ~loading[FALSE]

\* A click on the preview button of target t.
Clicked(t) == request' # request /\ request'.is_start = t

\* C12: a request for a target made less than 500 ms after a request for the
\* same target passed the guards spawns no worker and changes no state of the
\* preview service.
C12_SecondIsNoOp ==
    [][\A t \in BOOLEAN : (Clicked(t) /\ Recent(t)) => UNCHANGED previewvars]_vars

\* The second request came while the target was no longer loading, inside the
\* window of the first: the debounce guard dropped it.
C12_Witness ==
    /\ request.outcome = "debounced"
    /\ request.recent
    /\ ~loading[request.is_start]

\* The request gets to the debounce guard and is dropped there.
DebounceDrops(t) ==
    /\ source_paths # <<>>
    /\ ~loading[t]
    /\ now - last_preview_request_time < Debounce

\* C13: the debounce guard drops a request for a target only if a request for
\* that same target passed the guards less than 500 ms earlier; a request that
\* passed for the other target does not count.
C13_WindowPerTarget ==
    [][\A t \in BOOLEAN :
          (/\ Clicked(t)
           /\ DebounceDrops(t)
           /\ \E u \in BOOLEAN : accepted_at[u] >= 0)
          => Recent(t)]_vars

\* A guard of generate_preview fails for target t.
GuardFails(t) ==
    \/ source_paths = <<>>
    \/ loading[t]
    \/ now - last_preview_request_time < Debounce

\* C14: a request that fails a guard leaves the loading flags, the last
\* request time, the frame slots and the worker handle as they were, and
\* spawns no worker.
C14_DroppedHasNoEffect ==
    [][\A t \in BOOLEAN :
          (Clicked(t) /\ GuardFails(t))
          => UNCHANGED <<loading, last_preview_request_time, frame, frame_lock,
                         preview_thread, pworkers>>]_vars

\* A request for a target whose worker is still in flight was dropped at the
\* loading guard, after the debounce window of the first request had passed.
C14_Witness ==
    /\ request.outcome = "loading"
    /\ ~request.recent
    /\ loading[request.is_start]
    /\ Cardinality(InFlight(request.is_start)) = 1
    /\ Len(pworkers) = 1

\* The bytes b are those that the ffmpeg of one ended worker of target t wrote.
BytesOf(b, t) ==
    /\ b.val \in DOMAIN pworkers
    /\ pworkers[b.val].is_start = t
    /\ pworkers[b.val].pc = "done"
    /\ pworkers[b.val].img_data = b

\* C15: the bytes in a frame slot, and the bytes preview_panel took from it,
\* are those of one ended worker launched for that target, and a worker reads
\* from the temporary file only what its own ffmpeg wrote.
C15_BytesOfOneInvocation ==
    /\ \A w \in DOMAIN pworkers :
          pworkers[w].img_data.some => pworkers[w].img_data.val = w
    /\ \A t \in BOOLEAN :
          /\ frame[t].some => BytesOf(frame[t], t)
          /\ drained[t].some => BytesOf(drained[t], t)

\* Two workers of one target have produced bytes, and preview_panel has taken
\* those of the second.
C15_Witness ==
    \E t \in BOOLEAN :
        /\ drained[t] = Some(2)
        /\ pworkers[1].is_start = t
        /\ pworkers[1].img_data = Some(1)

\* C20: a request that passed the guards for one target does not wait for the
\* worker of the other target (so that a worker of each target can be in
\* flight at once).
C20_NoWaitOnOtherTarget ==
    ~(/\ ctl.pc = "join"
      /\ PreviewAlive(ctl.thread)
      /\ pworkers[ctl.thread].is_start # ctl.is_start)

\* C25: once the file list has been cleared, and until a file is added and a
\* request is accepted again, both frame slots stay empty, also when a preview
\* worker was in flight at the clear.
C25_ClearedStaysEmpty ==
    source_paths = <<>> => \A t \in BOOLEAN : ~frame[t].some

------------------------------------------------------------------------------
(* Claims about the functions *)

Built == calc.op = "process_task" /\ calc.st = "built"

\* The number of arguments of the built command line that are equal to a.
Count(a) == Cardinality({k \in 1..Len(calc.args) : calc.args[k] = a})

\* The command line has the clip arguments -ss <start> -to <end>.
HasClip ==
    \E k \in 1..(Len(calc.args) - 3) :
        /\ calc.args[k] = Opt("-ss")
        /\ calc.args[k + 1] = TimeArg(calc.task.start_time)
        /\ calc.args[k + 2] = Opt("-to")
        /\ calc.args[k + 3] = TimeArg(calc.task.end_time)

\* The command line asks for a stream copy.
AsksCopy ==
    \E k \in 1..(Len(calc.args) - 1) :
        /\ calc.args[k] \in {Opt("-c:v"), Opt("-c:a"), Opt("-codec"), Opt("-c")}
        /\ calc.args[k + 1] = Opt("copy")

StartsBeforeEnd ==
    ParseNaiveTime(calc.task.start_time).val < ParseNaiveTime(calc.task.end_time).val

\* C16: the command line has the clip arguments exactly when start_time is
\* strictly earlier than end_time; otherwise it has neither -ss nor -to and
\* copies the input to the output path.
C16_ClipPolicy ==
    Built =>
        /\ HasClip <=> StartsBeforeEnd
        /\ ~StartsBeforeEnd =>
              /\ Count(Opt("-ss")) = 0
              /\ Count(Opt("-to")) = 0
              /\ Count(PathArg(calc.task.output_path)) >= 1
              /\ AsksCopy

\* C17: sanitize_filename applied to its own result gives that result again,
\* and the result has no character outside the allowed set (letters, digits,
\* underscore, slash, dot, CJK).
C17_SanitizeIdempotent ==
    (calc.op = "sanitize_filename" /\ calc.n = 2) =>
        /\ calc.twice = calc.once
        /\ \A k \in 1..Len(calc.once) : calc.once[k] \in AllowedChars

\* A name with a character outside the set and two dots was sanitized twice:
\* the first application changed it.
C17_Witness ==
    /\ calc.op = "sanitize_filename"
    /\ calc.n = 2
    /\ \E k \in 1..Len(calc.input) : calc.input[k] \in OtherChars
    /\ Cardinality({k \in 1..Len(calc.input) : calc.input[k] = "."}) = 2
    /\ Len(calc.once) = 2

\* The value of part k of the token, in hundredths.
PartVal(k) == calc.parts[k].val

\* C18: for a line with time= and a well-formed token, the parser gives the
\* seconds divided by 100: H*3600+M*60+S for three parts, M*60+S for two, and
\* no value for any other number of parts.
C18_ProgressOfToken ==
    (calc.op = "parse_ffmpeg_progress" /\ calc.done) =>
        calc.out =
            CASE Len(calc.parts) = 3 ->
                   Some(PartVal(1) * 3600 + PartVal(2) * 60 + PartVal(3))
              [] Len(calc.parts) = 2 -> Some(PartVal(1) * 60 + PartVal(2))
              [] OTHER -> None

\* The line "q=1 time=01:30.50 x" was parsed: 90.5 s, progress 0.905.
C18_Witness ==
    /\ calc.op = "parse_ffmpeg_progress"
    /\ calc.done
    /\ Len(calc.parts) = 2
    /\ PartVal(1) = 100
    /\ PartVal(2) = 3050
    /\ calc.out = Some(9050)

\* C19: whatever the order of the times and the rotation, the command line
\* names the output path exactly once and asks for a stream copy.
C19_OneOutputPath ==
    Built => (Count(PathArg(calc.task.output_path)) = 1 /\ AsksCopy)

\* The index of the last slash of the output path, 0 when there is none.
LastSlash ==
    LET at == {k \in 1..Len(calc.output_path) : calc.output_path[k] = "/"}
    IN  IF at = {} THEN 0 ELSE CHOOSE k \in at : \A j \in at : j <= k

\* C22: the directory part of a task's output path is the configured output
\* directory and its file part is the rendered filename, for every output
\* directory string.
C22_OutputInConfiguredDir ==
    (calc.op = "generate_output_path" /\ calc.done) =>
        /\ LastSlash > 0
        /\ SubSeq(calc.output_path, 1, LastSlash - 1) = calc.output_dir
        /\ SubSeq(calc.output_path, LastSlash + 1, Len(calc.output_path))
              = calc.filename

\* The lines without the marker or with a malformed numeric part.
NoValueLines == {LineNoMarker, LineMalformed}

\* C23: a line without time=, or with a malformed number in its time token,
\* leaves the progress cell and the message as they were, and the reader goes
\* on to the next line.
C23_BadLineNoUpdate ==
    calc.op = "reader" =>
        /\ message = <<>>
        /\ \A j \in 1..calc.k :
              calc.lines[j] \in NoValueLines =>
                  calc.seen[j] = IF j = 1 THEN 0 ELSE calc.seen[j - 1]

\* The reader took a good line, a malformed one and a good one: the cell kept
\* 0.5 over the malformed line and got the value of the line after it.
C23_Witness ==
    /\ calc.op = "reader"
    /\ calc.lines = <<LineHalf, LineMalformed, LineOver>>
    /\ calc.seen = <<5000, 5000, 12000>>
    /\ progress = 12000

==============================================================================
